---- MODULE Spec2Model ----
(***************************************************************************)
(* Model of the Alpaca dataset validator (src/main.py): the per-record     *)
(* validator _validate_sample, the loaders _load_json / _load_jsonl, the   *)
(* file-level validate, collect_files and the command line main.           *)
(*                                                                         *)
(* Text is modelled as sequences of one-character strings so that strip,   *)
(* lower, sorted and join are computed, not assumed.  A name written as a  *)
(* TLA+ string ("instruction") is spelled out by Chars.                    *)
(*                                                                         *)
(* Scope: every path is a readable regular file, a directory or missing    *)
(* (an OSError raised by open() propagates out of validate and is not      *)
(* modelled); _pause only waits for the operator and summary() only        *)
(* renders the report, so main's output is kept as the reports themselves. *)
(* The iteration order of a Python set of strings follows the process'     *)
(* randomized string hash: it is fixed within a process (seed) and free    *)
(* between processes.                                                      *)
(***************************************************************************)
EXTENDS Integers, Sequences, FiniteSets, TLC

VARIABLES
    seed,       \* the process' string-hash seed: the iteration orders of its sets
    argv,       \* sys.argv[1:], a sequence of paths
    files,      \* main: the list returned by collect_files
    fi,         \* main: position of the for loop over files (1-based, next file)
    all_valid,  \* main: the all_valid flag
    exit_code,  \* the status passed to sys.exit; -1 while the process runs
    stdout,     \* what the process printed, in order
    pc,         \* main's position
    cur,        \* validate: the file it was called on
    samples,    \* validate: the loaded samples
    idx,        \* validate: position of the loop over samples (0-based, next sample)
    result,     \* validate: the ValidationResult being built
    vpc,        \* validate's position
    run,        \* number of the process run (re-run specification)
    prev        \* reports returned by earlier runs, in order

vars == <<seed, argv, files, fi, all_valid, exit_code, stdout, pc,
          cur, samples, idx, result, vpc, run, prev>>

(***************************************************************************)
(* Bounds of the model.                                                    *)
(***************************************************************************)
MaxStrLen == 1      \* longest string value of a field
MaxIndex == 1       \* largest index _validate_sample is called with on its own
MaxLines == 2       \* most lines of a line-delimited file
MaxRecords == 2     \* most elements of a top-level array
MaxArgs == 2        \* most command-line path arguments
MaxRuns == 2        \* process runs in the re-run specification

(***************************************************************************)
(* Characters and strings.                                                 *)
(***************************************************************************)
UpperCase == <<"A", "B", "C", "D", "E", "F", "G", "H", "I", "J", "K", "L", "M",
               "N", "O", "P", "Q", "R", "S", "T", "U", "V", "W", "X", "Y", "Z">>
LowerCase == <<"a", "b", "c", "d", "e", "f", "g", "h", "i", "j", "k", "l", "m",
               "n", "o", "p", "q", "r", "s", "t", "u", "v", "w", "x", "y", "z">>

\* The characters in use, in code point order (tab, space, comma, full stop,
\* upper case, lower case).
Ascii == <<"\t", " ", ",", ".">> \o UpperCase \o LowerCase

\* The position of a character in code point order.
CodePoint(c) == CHOOSE k \in 1..Len(Ascii) : Ascii[k] = c

Whitespace == {"\t", " "}

\* A name spelled out.
Chars(s) ==
    CASE s = "" -> <<>>
      [] s = "instruction" -> <<"i", "n", "s", "t", "r", "u", "c", "t", "i", "o", "n">>
      [] s = "output" -> <<"o", "u", "t", "p", "u", "t">>
      [] s = "input" -> <<"i", "n", "p", "u", "t">>
      [] s = "extra" -> <<"e", "x", "t", "r", "a">>
      [] s = "id" -> <<"i", "d">>
      [] s = "Zeta" -> <<"Z", "e", "t", "a">>
      [] s = "ok.json" -> <<"o", "k", ".", "j", "s", "o", "n">>
      [] s = "warn.jsonl" -> <<"w", "a", "r", "n", ".", "j", "s", "o", "n", "l">>
      [] s = "bad.json" -> <<"b", "a", "d", ".", "j", "s", "o", "n">>
      [] s = "broken.jsonl" -> <<"b", "r", "o", "k", "e", "n", ".", "j", "s", "o", "n", "l">>
      [] s = "notes.txt" -> <<"n", "o", "t", "e", "s", ".", "t", "x", "t">>
      [] s = "gone.json" -> <<"g", "o", "n", "e", ".", "j", "s", "o", "n">>
      [] s = "empty" -> <<"e", "m", "p", "t", "y">>
      [] s = "data" -> <<"d", "a", "t", "a">>
      [] s = "A.JSON" -> <<"A", ".", "J", "S", "O", "N">>
      [] s = "b.jsonl" -> <<"b", ".", "j", "s", "o", "n", "l">>
      [] s = "sub" -> <<"s", "u", "b">>
      [] s = "readme.txt" -> <<"r", "e", "a", "d", "m", "e", ".", "t", "x", "t">>
      [] s = "d.json" -> <<"d", ".", "j", "s", "o", "n">>
      [] s = "d.jsonl" -> <<"d", ".", "j", "s", "o", "n", "l">>
      [] s = "D.JSON" -> <<"D", ".", "J", "S", "O", "N">>
      [] s = "d.Jsonl" -> <<"d", ".", "J", "s", "o", "n", "l">>
      [] s = "d.txt" -> <<"d", ".", "t", "x", "t">>
      [] s = "d" -> <<"d">>
      [] s = ".json" -> <<".", "j", "s", "o", "n">>
      [] s = ".jsonl" -> <<".", "j", "s", "o", "n", "l">>
      [] s = "d.json.bak" -> <<"d", ".", "j", "s", "o", "n", ".", "b", "a", "k">>

\* str < str: code point by code point, a proper prefix first.
RECURSIVE StrLess(_, _)
StrLess(a, b) ==
    IF b = <<>> THEN FALSE
    ELSE IF a = <<>> THEN TRUE
    ELSE IF Head(a) # Head(b) THEN CodePoint(Head(a)) < CodePoint(Head(b))
    ELSE StrLess(Tail(a), Tail(b))

\* str.strip(): leading and trailing whitespace removed.
RECURSIVE LStrip(_)
LStrip(s) == IF s # <<>> /\ Head(s) \in Whitespace THEN LStrip(Tail(s)) ELSE s

RECURSIVE RStrip(_)
RStrip(s) ==
    IF s # <<>> /\ s[Len(s)] \in Whitespace THEN RStrip(SubSeq(s, 1, Len(s) - 1)) ELSE s

Strip(s) == RStrip(LStrip(s))

\* str.lower(), one character.
LowerChar(c) ==
    IF \E k \in 1..Len(UpperCase) : UpperCase[k] = c
    THEN LowerCase[CHOOSE k \in 1..Len(UpperCase) : UpperCase[k] = c]
    ELSE c

Lower(s) == [k \in 1..Len(s) |-> LowerChar(s[k])]

\* sorted(names): ascending by str <.
RECURSIVE Sorted(_)
Sorted(S) ==
    IF S = {} THEN <<>>
    ELSE LET m == CHOOSE x \in S : \A y \in S \ {x} : StrLess(Chars(x), Chars(y))
         IN <<m>> \o Sorted(S \ {m})

\* sep.join(names), spelled out.
RECURSIVE Join(_, _)
Join(names, sep) ==
    IF names = <<>> THEN <<>>
    ELSE IF Len(names) = 1 THEN Chars(names[1])
    ELSE Chars(names[1]) \o sep \o Join(Tail(names), sep)

\* All strings over alphabet A of length at most n.
RECURSIVE StringsUpTo(_, _)
StringsUpTo(A, n) ==
    IF n = 0 THEN {<<>>}
    ELSE LET shorter == StringsUpTo(A, n - 1)
         IN shorter \cup {<<c>> \o s : c \in A, s \in {t \in shorter : Len(t) = n - 1}}

\* All sequences over S of length at most n.
SeqsUpTo(S, n) == UNION {[1..k -> S] : k \in 0..n}

\* The enumerations of a set: every order a set iteration can take.
Perms(S) == {p \in [1..Cardinality(S) -> S] : \A a, b \in 1..Cardinality(S) : a # b => p[a] # p[b]}

(***************************************************************************)
(* The Alpaca format.                                                      *)
(***************************************************************************)
REQUIRED_FIELDS == {"instruction", "output"}
OPTIONAL_FIELDS == {"input"}
ALL_KNOWN_FIELDS == REQUIRED_FIELDS \cup OPTIONAL_FIELDS

\* Keys outside the format that the modelled records may carry.
UnknownFields == {"extra", "id", "Zeta"}
FieldNames == ALL_KNOWN_FIELDS \cup UnknownFields

(***************************************************************************)
(* JSON values as json.load returns them.  A value is tagged with the name *)
(* of its Python type; a str carries its characters, a dict its items (a   *)
(* key that is not in the dict maps to Absent).                            *)
(***************************************************************************)
Absent == [t |-> "absent", s |-> <<>>]
Str(s) == [t |-> "str", s |-> s]
NonStr(t) == [t |-> t, s |-> <<>>]

NoItems == [f \in FieldNames |-> Absent]
Dict(d) == [t |-> "dict", d |-> d]
NonDict(t) == [t |-> t, d |-> NoItems]

NonDictTypes == {"NoneType", "bool", "int", "float", "str", "list"}
NonStrTypes == {"NoneType", "int", "list"}

\* Values a known field takes in the modelled records.
KnownValues ==
    {Absent} \cup {Str(s) : s \in StringsUpTo({" ", "a"}, MaxStrLen)}
             \cup {NonStr(t) : t \in NonStrTypes}
\* Values an unknown field takes.
UnknownValues == {Absent, Str(<<"a">>)}

Samples ==
    {NonDict(t) : t \in NonDictTypes}
    \cup {Dict(d) : d \in {g \in [FieldNames -> KnownValues \cup UnknownValues] :
                             /\ \A f \in ALL_KNOWN_FIELDS : g[f] \in KnownValues
                             /\ \A f \in UnknownFields : g[f] \in UnknownValues}}

\* set(sample.keys())
Keys(sample) == {f \in FieldNames : sample.d[f].t # "absent"}

(***************************************************************************)
(* ValidationError and ValidationResult.                                   *)
(***************************************************************************)
Message(text, arg, line) == [text |-> text, arg |-> arg, line |-> line]
ValidationError(index, fld, message) == [index |-> index, field |-> fld, message |-> message]

MissingMsg == Message("missing required field", <<>>, 0)
EmptyMsg == Message("required field must not be empty", <<>>, 0)
TypeMsg(t) == Message("field value must be a string", <<t>>, 0)
NotObjectMsg(t) == Message("sample must be a JSON object", <<t>>, 0)
UnknownMsg(names) == Message("unknown fields", Join(names, <<",", " ">>), 0)

ValidationResult(file) ==
    [file |-> file, total_samples |-> 0, errors |-> <<>>, warnings |-> <<>>]

is_valid(r) == Len(r.errors) = 0

\* The hash seed fixes, for the life of the process, the order in which
\* REQUIRED_FIELDS and ALL_KNOWN_FIELDS & keys are iterated.
Seeds == [req : Perms(REQUIRED_FIELDS), known : Perms(ALL_KNOWN_FIELDS)]

(***************************************************************************)
(* _validate_sample                                                        *)
(***************************************************************************)
\* Mutant of RequiredErrors: the loop breaks after the first missing field.
RequiredErrorsFirstOnly(sample, index, sd) ==
    LET missing == SelectSeq(sd.req, LAMBDA f : f \notin Keys(sample))
    IN IF missing = <<>> THEN <<>> ELSE <<ValidationError(index, missing[1], MissingMsg)>>

\* for f in REQUIRED_FIELDS: if f not in keys: errors.append(...)
RequiredErrors(sample, index, sd) ==
    LET missing == SelectSeq(sd.req, LAMBDA f : f \notin Keys(sample))
    IN [k \in 1..Len(missing) |-> ValidationError(index, missing[k], MissingMsg)]

\* Mutant of UnknownWarnings: one warning per unknown field.
UnknownWarningsEach(sample, index) ==
    LET unknown == Sorted(Keys(sample) \ ALL_KNOWN_FIELDS)
    IN [k \in 1..Len(unknown) |-> ValidationError(index, "", UnknownMsg(<<unknown[k]>>))]

\* unknown = keys - ALL_KNOWN_FIELDS; if unknown: warnings.append(...)
UnknownWarnings(sample, index) ==
    LET unknown == Keys(sample) \ ALL_KNOWN_FIELDS
    IN IF unknown # {}
       THEN <<ValidationError(index, "", UnknownMsg(Sorted(unknown)))>>
       ELSE <<>>

\* Mutant of ValueCheck: the emptiness test is inverted (strip() != "").
ValueCheckInverted(sample, index, f) ==
    LET val == sample.d[f]
    IN IF val.t # "str"
       THEN <<ValidationError(index, f, TypeMsg(val.t))>>
       ELSE IF f \in REQUIRED_FIELDS /\ Strip(val.s) # <<>>
       THEN <<ValidationError(index, f, EmptyMsg)>>
       ELSE <<>>

\* Mutant of ValueCheck: the emptiness test is applied to every known field.
ValueCheckAllFields(sample, index, f) ==
    LET val == sample.d[f]
    IN IF val.t # "str"
       THEN <<ValidationError(index, f, TypeMsg(val.t))>>
       ELSE IF Strip(val.s) = <<>>
       THEN <<ValidationError(index, f, EmptyMsg)>>
       ELSE <<>>

\* The body of the loop over ALL_KNOWN_FIELDS & keys, for one field.
ValueCheck(sample, index, f) ==
    LET val == sample.d[f]
    IN IF val.t # "str"
       THEN <<ValidationError(index, f, TypeMsg(val.t))>>
       ELSE IF f \in REQUIRED_FIELDS /\ Strip(val.s) = <<>>
       THEN <<ValidationError(index, f, EmptyMsg)>>
       ELSE <<>>

RECURSIVE ValueErrorsOver(_, _, _)
ValueErrorsOver(sample, index, fields) ==
    IF fields = <<>> THEN <<>>
    ELSE ValueCheck(sample, index, Head(fields))
         \o ValueErrorsOver(sample, index, Tail(fields))

\* for f in ALL_KNOWN_FIELDS & keys: ...
ValueErrors(sample, index, sd) ==
    ValueErrorsOver(sample, index,
                    SelectSeq(sd.known, LAMBDA f : f \in ALL_KNOWN_FIELDS \cap Keys(sample)))

\* Mutant of validate_sample: the type check does not return.
validate_sample_no_return(sample, index, res, sd) ==
    [res EXCEPT !.errors = @ \o (IF sample.t # "dict"
                                  THEN <<ValidationError(index, "", NotObjectMsg(sample.t))>>
                                  ELSE <<>>)
                             \o RequiredErrors(sample, index, sd)
                             \o ValueErrors(sample, index, sd),
                !.warnings = @ \o UnknownWarnings(sample, index)]

\* Mutant of validate_sample: the value checks run before the presence checks.
validate_sample_values_first(sample, index, res, sd) ==
    IF sample.t # "dict"
    THEN [res EXCEPT !.errors = @ \o <<ValidationError(index, "", NotObjectMsg(sample.t))>>]
    ELSE [res EXCEPT !.errors = @ \o ValueErrors(sample, index, sd)
                                    \o RequiredErrors(sample, index, sd),
                     !.warnings = @ \o UnknownWarnings(sample, index)]

\* _validate_sample(sample, index, result): the result after the call.
validate_sample(sample, index, res, sd) ==
    IF sample.t # "dict"
    THEN [res EXCEPT !.errors = @ \o <<ValidationError(index, "", NotObjectMsg(sample.t))>>]
    ELSE [res EXCEPT !.errors = @ \o RequiredErrors(sample, index, sd)
                                    \o ValueErrors(sample, index, sd),
                     !.warnings = @ \o UnknownWarnings(sample, index)]

(***************************************************************************)
(* Files.  The text of a file is a sequence of lines; a line is blank      *)
(* (empty or whitespace only), bad (no JSON value, and no part of one), or *)
(* one complete JSON value.  A value that is an array carries its items.   *)
(***************************************************************************)
Blank == [k |-> "blank", v |-> NonDict("NoneType"), items |-> <<>>]
Bad == [k |-> "bad", v |-> NonDict("NoneType"), items |-> <<>>]
Val(v) == [k |-> "value", v |-> v, items |-> <<>>]
Arr(items) == [k |-> "value", v |-> NonDict("list"), items |-> items]

File(path, exists, text) == [path |-> path, exists |-> exists, text |-> text]

\* Path.suffix of a file name: from its last full stop on, unless that is the
\* first or the last character.
Suffix(name) ==
    LET dots == {k \in 1..Len(name) : name[k] = "."}
    IN IF dots = {} THEN <<>>
       ELSE LET p == CHOOSE k \in dots : \A j \in dots : j <= k
            IN IF 1 < p /\ p < Len(name) THEN SubSeq(name, p, Len(name)) ELSE <<>>

\* path.suffix.lower()
PathSuffix(path) == Lower(Suffix(Chars(path[Len(path)])))

Loaded(smp) == [status |-> "ok", samples |-> smp, line |-> 0]
NotAList == [status |-> "none", samples |-> <<>>, line |-> 0]
Raised(lineno) == [status |-> "raise", samples |-> <<>>, line |-> lineno]

\* _load_json: json.load of the whole text, then the isinstance(data, list) test.
\* json.load raises on a text with no value, on a bad token, and on anything
\* but whitespace after the first value.
load_json(text) ==
    LET body == SelectSeq(text, LAMBDA l : l.k # "blank")
    IN IF body = <<>> \/ Len(body) > 1 \/ body[1].k = "bad" THEN Raised(0)
       ELSE IF body[1].v.t = "list" THEN Loaded(body[1].items)
       ELSE NotAList

\* _load_jsonl from line lineno on, acc being the samples appended so far.
RECURSIVE load_jsonl_from(_, _, _)
load_jsonl_from(text, lineno, acc) ==
    IF lineno > Len(text) THEN Loaded(acc)
    ELSE LET line == text[lineno]
         IN IF line.k = "blank" THEN load_jsonl_from(text, lineno + 1, acc)
            ELSE IF line.k = "bad" THEN Raised(lineno)
            ELSE load_jsonl_from(text, lineno + 1, Append(acc, line.v))

\* Mutant of load_jsonl: a line that fails to parse is skipped.
load_jsonl_skip_bad(text) ==
    LET good == SelectSeq(text, LAMBDA l : l.k = "value")
    IN Loaded([k \in 1..Len(good) |-> good[k].v])

load_jsonl(text) == load_jsonl_from(text, 1, <<>>)

FileError(message) == ValidationError(-1, "", message)

\* validate, from its first line to the assignment of total_samples: the
\* result and the samples the loop over the samples starts from, and whether
\* the function returned before the loop.
validate_load(file) ==
    LET res == ValidationResult(file.path)
        suffix == PathSuffix(file.path)
        fail(message) == [returned |-> TRUE, samples |-> <<>>,
                          result |-> [res EXCEPT !.errors = @ \o <<FileError(message)>>]]
    IN IF ~file.exists THEN fail(Message("file does not exist", <<>>, 0))
       ELSE IF suffix \notin {Chars(".json"), Chars(".jsonl")}
       THEN fail(Message("unsupported file format", suffix, 0))
       ELSE LET got == IF suffix = Chars(".json") THEN load_json(file.text)
                       ELSE load_jsonl(file.text)
            IN IF got.status = "raise"
               THEN fail(Message("file parse failed", <<>>, got.line))
               ELSE IF got.status = "none"
               THEN fail(Message("top level must be an array", <<>>, 0))
               ELSE [returned |-> FALSE, samples |-> got.samples,
                     result |-> [res EXCEPT
                        !.warnings = IF Len(got.samples) = 0
                                     THEN @ \o <<FileError(Message("dataset is empty", <<>>, 0))>>
                                     ELSE @,
                        !.total_samples = Len(got.samples)]]

(***************************************************************************)
(* The file system the command line runs against.  A path is the sequence  *)
(* of its parts.                                                           *)
(***************************************************************************)
Good == Dict([NoItems EXCEPT !["instruction"] = Str(<<"a">>), !["output"] = Str(<<"a">>)])
BlankInstruction ==
    Dict([NoItems EXCEPT !["instruction"] = Str(<<" ">>), !["extra"] = Str(<<"a">>)])
NoFields == Dict(NoItems)
WrongTypes ==
    Dict([NoItems EXCEPT !["instruction"] = NonStr("int"), !["output"] = NonStr("NoneType"),
                         !["input"] = NonStr("int")])
GoodWithExtra == Dict([Good.d EXCEPT !["id"] = Str(<<"a">>)])

FSDirs == {<<"empty">>, <<"data">>, <<"data", "sub">>}
FSFiles == {<<"ok.json">>, <<"warn.jsonl">>, <<"bad.json">>, <<"broken.jsonl">>,
            <<"notes.txt">>, <<"empty", "notes.txt">>, <<"data", "b.jsonl">>,
            <<"data", "A.JSON">>, <<"data", "sub", "ok.json">>, <<"data", "readme.txt">>}

\* The text of the file at a path, by its name.
FSText(path) ==
    LET name == path[Len(path)]
    IN CASE name \in {"ok.json", "A.JSON"} -> <<Arr(<<Good>>)>>
         [] name = "warn.jsonl" -> <<Blank, Val(GoodWithExtra)>>
         [] name = "bad.json" -> <<Arr(<<Good, BlankInstruction>>)>>
         [] name = "b.jsonl" -> <<Val(NonDict("int")), Val(Good)>>
         [] name = "broken.jsonl" -> <<Val(Good), Bad>>
         [] OTHER -> <<Val(Good)>>

\* The file a path names: what path.exists() and path.open() find there.
FSFile(path) ==
    IF path \in FSFiles THEN File(path, TRUE, FSText(path)) ELSE File(path, FALSE, <<>>)

\* Path < Path: part by part.
RECURSIVE PathLess(_, _)
PathLess(a, b) ==
    IF b = <<>> THEN FALSE
    ELSE IF a = <<>> THEN TRUE
    ELSE IF Head(a) # Head(b) THEN StrLess(Chars(Head(a)), Chars(Head(b)))
    ELSE PathLess(Tail(a), Tail(b))

\* sorted(paths)
RECURSIVE SortedPaths(_)
SortedPaths(S) ==
    IF S = {} THEN <<>>
    ELSE LET m == CHOOSE x \in S : \A y \in S \ {x} : PathLess(x, y)
         IN <<m>> \o SortedPaths(S \ {m})

\* path.rglob("*"): everything below a directory.
Rglob(dir) ==
    {p \in FSFiles \cup FSDirs : Len(p) > Len(dir) /\ SubSeq(p, 1, Len(dir)) = dir}

\* What main prints: a report's summary, or one of its notices.
Printed(kind, path, res) == [kind |-> kind, path |-> path, report |-> res]
Notice(kind, path) == Printed(kind, path, ValidationResult(path))

\* sorted(f for f in path.rglob("*") if f.suffix.lower() in (".json", ".jsonl"))
Found(dir) ==
    SortedPaths({f \in Rglob(dir) : PathSuffix(f) \in {Chars(".json"), Chars(".jsonl")}})

\* Mutant of collect_files: a directory with nothing found is kept as a path.
RECURSIVE collect_files_keep_dir(_)
collect_files_keep_dir(paths) ==
    IF paths = <<>> THEN [files |-> <<>>, out |-> <<>>]
    ELSE LET path == Head(paths)
             rest == collect_files_keep_dir(Tail(paths))
         IN IF path \in FSDirs /\ Found(path) # <<>>
            THEN [files |-> Found(path) \o rest.files, out |-> rest.out]
            ELSE [files |-> <<path>> \o rest.files,
                  out |-> (IF path \in FSDirs THEN <<Notice("empty directory", path)>>
                           ELSE <<>>) \o rest.out]

\* collect_files(paths): the list it returns and what it prints.
RECURSIVE collect_files(_)
collect_files(paths) ==
    IF paths = <<>> THEN [files |-> <<>>, out |-> <<>>]
    ELSE LET path == Head(paths)
             rest == collect_files(Tail(paths))
         IN IF path \in FSDirs
            THEN [files |-> Found(path) \o rest.files,
                  out |-> (IF Found(path) = <<>> THEN <<Notice("empty directory", path)>>
                           ELSE <<>>) \o rest.out]
            ELSE [files |-> <<path>> \o rest.files, out |-> rest.out]

(***************************************************************************)
(* validate, step by step: the load, then one step per sample.             *)
(***************************************************************************)
NoFile == File(<<>>, FALSE, <<>>)

\* validate(file_path) up to the loop over the samples (or an early return).
ValidateLoad ==
    /\ vpc = "start"
    /\ LET v == validate_load(cur)
       IN /\ result' = v.result
          /\ samples' = v.samples
          /\ vpc' = IF v.returned THEN "return" ELSE "loop"
    /\ idx' = 0
    /\ UNCHANGED <<seed, argv, files, fi, all_valid, exit_code, stdout, pc, cur, run, prev>>

\* One iteration of: for idx, sample in enumerate(samples)
ValidateRecord ==
    /\ vpc = "loop"
    /\ idx < Len(samples)
    /\ result' = validate_sample(samples[idx + 1], idx, result, seed)
    /\ idx' = idx + 1
    /\ UNCHANGED <<seed, argv, files, fi, all_valid, exit_code, stdout, pc, cur, samples,
                   vpc, run, prev>>

\* The loop is over: return result.
ValidateReturn ==
    /\ vpc = "loop"
    /\ idx = Len(samples)
    /\ vpc' = "return"
    /\ UNCHANGED <<seed, argv, files, fi, all_valid, exit_code, stdout, pc, cur, samples,
                   idx, result, run, prev>>

(***************************************************************************)
(* main                                                                    *)
(***************************************************************************)
\* len(sys.argv) < 2: print the usage and exit 1.
MainUsage ==
    /\ pc = "start"
    /\ Len(argv) < 1
    /\ stdout' = Append(stdout, Notice("usage", <<>>))
    /\ exit_code' = 1
    /\ pc' = "exited"
    /\ UNCHANGED <<seed, argv, files, fi, all_valid, cur, samples, idx, result, vpc, run, prev>>

\* files = collect_files(sys.argv[1:]); exit 1 when there are none, else
\* all_valid = True and enter the loop over the files.
MainCollect ==
    /\ pc = "start"
    /\ Len(argv) >= 1
    /\ LET c == collect_files(argv)
       IN /\ files' = c.files
          /\ IF c.files = <<>>
             THEN /\ stdout' = stdout \o c.out \o <<Notice("no files", <<>>)>>
                  /\ exit_code' = 1
                  /\ pc' = "exited"
             ELSE /\ stdout' = stdout \o c.out
                  /\ exit_code' = exit_code
                  /\ pc' = "loop"
    /\ all_valid' = TRUE
    /\ fi' = 1
    /\ UNCHANGED <<seed, argv, cur, samples, idx, result, vpc, run, prev>>

\* for filepath in files: result = validate(filepath) -- the call.
MainCall ==
    /\ pc = "loop"
    /\ fi <= Len(files)
    /\ cur' = FSFile(files[fi])
    /\ vpc' = "start"
    /\ pc' = "validate"
    /\ UNCHANGED <<seed, argv, files, fi, all_valid, exit_code, stdout, samples, idx, result,
                   run, prev>>

\* Mutant of MainReport: all_valid is overwritten by the last file's validity.
MainReportLastWins ==
    /\ pc = "validate"
    /\ vpc = "return"
    /\ stdout' = Append(stdout, Printed("summary", result.file, result))
    /\ all_valid' = is_valid(result)
    /\ fi' = fi + 1
    /\ vpc' = "idle"
    /\ pc' = "loop"
    /\ UNCHANGED <<seed, argv, files, exit_code, cur, samples, idx, result, run, prev>>

\* validate returned: print(result.summary()); clear all_valid if not is_valid.
MainReport ==
    /\ pc = "validate"
    /\ vpc = "return"
    /\ stdout' = Append(stdout, Printed("summary", result.file, result))
    /\ all_valid' = IF ~is_valid(result) THEN FALSE ELSE all_valid
    /\ fi' = fi + 1
    /\ vpc' = "idle"
    /\ pc' = "loop"
    /\ UNCHANGED <<seed, argv, files, exit_code, cur, samples, idx, result, run, prev>>

\* The loop is over: sys.exit(0 if all_valid else 1).
MainExit ==
    /\ pc = "loop"
    /\ fi > Len(files)
    /\ exit_code' = IF all_valid THEN 0 ELSE 1
    /\ pc' = "exited"
    /\ UNCHANGED <<seed, argv, files, fi, all_valid, stdout, cur, samples, idx, result, vpc,
                   run, prev>>

(***************************************************************************)
(* Specification of a command-line run.                                    *)
(***************************************************************************)
\* The paths the command line may name: files, directories, a missing file.
ArgPaths == {<<"ok.json">>, <<"warn.jsonl">>, <<"bad.json">>, <<"broken.jsonl">>,
             <<"notes.txt">>, <<"gone.json">>, <<"empty">>, <<"data">>}

Init ==
    /\ seed \in Seeds
    /\ argv \in SeqsUpTo(ArgPaths, MaxArgs)
    /\ files = <<>>
    /\ fi = 1
    /\ all_valid = TRUE
    /\ exit_code = -1
    /\ stdout = <<>>
    /\ pc = "start"
    /\ cur = NoFile
    /\ samples = <<>>
    /\ idx = 0
    /\ result = ValidationResult(<<>>)
    /\ vpc = "idle"
    /\ run = 1
    /\ prev = <<>>

Next ==
    \/ MainUsage
    \/ MainCollect
    \/ MainCall
    \/ ValidateLoad
    \/ ValidateRecord
    \/ ValidateReturn
    \/ MainReport
    \/ MainExit

Spec == Init /\ [][Next]_vars

(***************************************************************************)
(* Specification of one call of validate, on any modelled file.            *)
(***************************************************************************)
\* The records of the modelled files.
FileSamples == {NonDict("int"), Good, BlankInstruction, NoFields, WrongTypes}

Texts ==
    SeqsUpTo({Blank, Bad} \cup {Val(v) : v \in FileSamples}, MaxLines)
    \cup {<<Arr(items)>> : items \in SeqsUpTo(FileSamples, MaxRecords)}

FileNames == {"d.json", "d.jsonl", "D.JSON", "d.Jsonl", "d.txt", ".json"}

ValidateFiles ==
    {File(<<n>>, TRUE, t) : n \in FileNames, t \in Texts}
    \cup {File(<<n>>, FALSE, <<>>) : n \in FileNames}

InitValidate ==
    /\ seed \in Seeds
    /\ cur \in ValidateFiles
    /\ vpc = "start"
    /\ argv = <<>>
    /\ files = <<>>
    /\ fi = 1
    /\ all_valid = TRUE
    /\ exit_code = -1
    /\ stdout = <<>>
    /\ pc = "none"
    /\ samples = <<>>
    /\ idx = 0
    /\ result = ValidationResult(<<>>)
    /\ run = 1
    /\ prev = <<>>

NextValidate == ValidateLoad \/ ValidateRecord \/ ValidateReturn

SpecValidate == InitValidate /\ [][NextValidate]_vars

(***************************************************************************)
(* Specification of the same file validated again by a new process, whose  *)
(* hash seed is its own.                                                   *)
(***************************************************************************)
Rerun ==
    /\ pc = "none"
    /\ vpc = "return"
    /\ run < MaxRuns
    /\ prev' = Append(prev, result)
    /\ run' = run + 1
    /\ seed' \in Seeds
    /\ vpc' = "start"
    /\ UNCHANGED <<argv, files, fi, all_valid, exit_code, stdout, pc, cur, samples, idx, result>>

NextRerun == ValidateLoad \/ ValidateRecord \/ ValidateReturn \/ Rerun

SpecRerun == InitValidate /\ [][NextRerun]_vars

(***************************************************************************)
(* Specification of one call of _validate_sample, on any modelled record.  *)
(***************************************************************************)
InitSample ==
    /\ seed \in Seeds
    /\ samples \in {<<s>> : s \in Samples}
    /\ idx \in 0..MaxIndex
    /\ result = ValidationResult(<<>>)
    /\ vpc = "sample"
    /\ cur = NoFile
    /\ argv = <<>>
    /\ files = <<>>
    /\ fi = 1
    /\ all_valid = TRUE
    /\ exit_code = -1
    /\ stdout = <<>>
    /\ pc = "none"
    /\ run = 1
    /\ prev = <<>>

\* _validate_sample(sample, index, result)
SampleCall ==
    /\ vpc = "sample"
    /\ result' = validate_sample(samples[1], idx, result, seed)
    /\ vpc' = "sampled"
    /\ UNCHANGED <<seed, argv, files, fi, all_valid, exit_code, stdout, pc, cur, samples, idx,
                   run, prev>>

NextSample == SampleCall

SpecSample == InitSample /\ [][NextSample]_vars

(***************************************************************************)
(* Properties.                                                             *)
(***************************************************************************)
ErrorsAt(res, i) == SelectSeq(res.errors, LAMBDA e : e.index = i)
WarningsAt(res, i) == SelectSeq(res.warnings, LAMBDA w : w.index = i)
ErrorsOn(res, f) == SelectSeq(res.errors, LAMBDA e : e.field = f)
WarningsOn(res, f) == SelectSeq(res.warnings, LAMBDA w : w.field = f)
MissingErrors(res) == SelectSeq(res.errors, LAMBDA e : e.message = MissingMsg)
OtherErrors(res) == SelectSeq(res.errors, LAMBDA e : e.message # MissingMsg)
Range(q) == {q[k] : k \in 1..Len(q)}

\* The record _validate_sample was called on, and the fields it lacks.
TheSample == samples[1]
Sampled == vpc = "sampled" /\ TheSample.t = "dict"
MissingRequired == REQUIRED_FIELDS \ Keys(TheSample)
Unknown == Keys(TheSample) \ ALL_KNOWN_FIELDS
IsBlankStr(v) == v.t = "str" /\ \A k \in 1..Len(v.s) : v.s[k] \in Whitespace

\* The ways a load fails, read off the file.
Supported(file) == PathSuffix(file.path) \in {Chars(".json"), Chars(".jsonl")}
IsJson(file) == PathSuffix(file.path) = Chars(".json")
IsJsonl(file) == PathSuffix(file.path) = Chars(".jsonl")
Body(file) == SelectSeq(file.text, LAMBDA l : l.k # "blank")
JsonSyntaxError(file) ==
    Body(file) = <<>> \/ Len(Body(file)) > 1 \/ Body(file)[1].k = "bad"
TopLevelNotArray(file) == ~JsonSyntaxError(file) /\ Body(file)[1].v.t # "list"
BadLine(file) == \E k \in 1..Len(file.text) : file.text[k].k = "bad"
LoadFails(file) ==
    \/ ~file.exists
    \/ ~Supported(file)
    \/ IsJson(file) /\ (JsonSyntaxError(file) \/ TopLevelNotArray(file))
    \/ IsJsonl(file) /\ BadLine(file)

\* C1: a call of validate whose load fails (missing file, unsupported
\* extension, JSON syntax error, a .jsonl line that does not parse, a .json
\* top level that is not an array) returns a report with exactly one error,
\* with index -1 and field "", no warning, total_samples 0 and no finding of
\* any record, and never enters the loop over samples.
C1_LoadFailureReport ==
    (vpc \in {"loop", "return"} /\ LoadFails(cur)) =>
        /\ vpc = "return"
        /\ Len(result.errors) = 1
        /\ result.errors[1].index = -1
        /\ result.errors[1].field = ""
        /\ result.warnings = <<>>
        /\ result.total_samples = 0
        /\ \A e \in Range(result.errors) \cup Range(result.warnings) : e.index < 0

\* A .jsonl file whose first line parsed and whose second did not.
C1_Witness ==
    /\ vpc = "return"
    /\ cur.exists /\ IsJsonl(cur)
    /\ Len(cur.text) >= 2
    /\ cur.text[1].k = "value" /\ cur.text[1].v.t = "dict"
    /\ cur.text[2].k = "bad"
    /\ Len(result.errors) = 1

\* The summaries main printed, in order.
Summaries == SelectSeq(stdout, LAMBDA o : o.kind = "summary")
AllReportsValid == \A o \in Range(Summaries) : is_valid(o.report)
NothingSkipped ==
    /\ Len(Summaries) = Len(files)
    /\ \A k \in 1..Len(files) : Summaries[k].path = files[k]
EmptyDirArgs == {k \in 1..Len(argv) : argv[k] \in FSDirs /\ Found(argv[k]) = <<>>}

C4_AsStated ==
    (Sampled /\ MissingRequired # {}) =>
        /\ Len(result.errors) = Cardinality(MissingRequired)
        /\ \A f \in MissingRequired :
               ErrorsOn(result, f) = <<ValidationError(idx, f, MissingMsg)>>

\* C4 amended: a record missing N of the required fields gets exactly N
\* missing-field errors, one per missing field with that field's name, and
\* no other missing-field error; its other errors are value errors of known
\* fields that are present.
C4_MissingRequired ==
    (Sampled /\ MissingRequired # {}) =>
        /\ Len(MissingErrors(result)) = Cardinality(MissingRequired)
        /\ \A f \in MissingRequired :
               ErrorsOn(result, f) = <<ValidationError(idx, f, MissingMsg)>>
        /\ \A e \in Range(OtherErrors(result)) :
               /\ e.index = idx
               /\ e.field \in ALL_KNOWN_FIELDS \cap Keys(TheSample)
               /\ e.message.text \in {"field value must be a string",
                                      "required field must not be empty"}

\* A record missing one required field whose other required field is blank.
C4_Witness ==
    /\ Sampled
    /\ Cardinality(MissingRequired) = 1
    /\ Len(MissingErrors(result)) = 1
    /\ Len(result.errors) = 2

\* The unknown names of the model in code point order, and their listing.
UnknownInOrder == SelectSeq(<<"Zeta", "extra", "id">>, LAMBDA f : f \in Unknown)
Listing(names) ==
    CASE Len(names) = 1 -> Chars(names[1])
      [] Len(names) = 2 -> Chars(names[1]) \o <<",", " ">> \o Chars(names[2])
      [] Len(names) = 3 -> Chars(names[1]) \o <<",", " ">> \o Chars(names[2])
                           \o <<",", " ">> \o Chars(names[3])

\* C5: a record with a key outside {instruction, output, input} gets exactly
\* one warning, with field "", listing all its unknown keys sorted and joined
\* by ", "; a record with no unknown key gets no warning.
C5_UnknownFields ==
    Sampled =>
        /\ Unknown # {} =>
               result.warnings =
                   <<ValidationError(idx, "",
                        Message("unknown fields", Listing(UnknownInOrder), 0))>>
        /\ Unknown = {} => result.warnings = <<>>

\* A record with three unknown keys and its one warning.
C5_Witness ==
    /\ Sampled
    /\ Cardinality(Unknown) = 3
    /\ Len(result.warnings) = 1
    /\ result.warnings[1].message.arg = Chars("Zeta") \o <<",", " ">> \o Chars("extra")
                                        \o <<",", " ">> \o Chars("id")

\* C6 as stated: a record with exactly the required fields, both non-empty
\* strings, gets no error and no warning.
C6_AsStated ==
    (/\ Sampled
     /\ Keys(TheSample) = REQUIRED_FIELDS
     /\ \A f \in REQUIRED_FIELDS : TheSample.d[f].t = "str" /\ TheSample.d[f].s # <<>>) =>
        result.errors = <<>> /\ result.warnings = <<>>

\* C6 amended: a record with exactly the required fields, both strings that
\* are neither empty nor all whitespace, gets no error and no warning.
C6_ValidRecord ==
    (/\ Sampled
     /\ Keys(TheSample) = REQUIRED_FIELDS
     /\ \A f \in REQUIRED_FIELDS : TheSample.d[f].t = "str" /\ ~IsBlankStr(TheSample.d[f])) =>
        result.errors = <<>> /\ result.warnings = <<>>

\* Such a record, validated.
C6_Witness ==
    /\ Sampled
    /\ Keys(TheSample) = REQUIRED_FIELDS
    /\ \A f \in REQUIRED_FIELDS : TheSample.d[f].t = "str" /\ ~IsBlankStr(TheSample.d[f])
    /\ result.errors = <<>>

\* C7 as stated: validating the same unchanged file again yields the same
\* report (total_samples, errors and warnings in the same order), whatever
\* enumeration orders of the field sets the validating processes use.
C7_AsStated ==
    vpc = "return" => \A k \in 1..Len(prev) : prev[k] = result

\* C8: an input that is an empty or all-whitespace string gets no error and
\* no warning; an instruction or output that is one gets exactly one error,
\* with that field's name and message "required field must not be empty".
C8_BlankValues ==
    Sampled =>
        /\ IsBlankStr(TheSample.d["input"]) =>
               ErrorsOn(result, "input") = <<>> /\ WarningsOn(result, "input") = <<>>
        /\ \A f \in REQUIRED_FIELDS :
               IsBlankStr(TheSample.d[f]) =>
                   ErrorsOn(result, f) = <<ValidationError(idx, f, EmptyMsg)>>

\* A record whose input and instruction are both blank strings.
C8_Witness ==
    /\ Sampled
    /\ IsBlankStr(TheSample.d["input"])
    /\ IsBlankStr(TheSample.d["instruction"])
    /\ TheSample.d["output"].t = "str" /\ ~IsBlankStr(TheSample.d["output"])
    /\ Len(result.errors) = 1

\* What _validate_sample reports for a record on its own.
Alone(i) == validate_sample(samples[i + 1], i, ValidationResult(cur.path), seed)

\* C9: a record that is not an object gets exactly one error, with field ""
\* and its own index, and nothing else; the records after it are validated
\* all the same, each with the findings it gets on its own.
C9_NonObjectRecord ==
    vpc \in {"loop", "return"} =>
        \A i \in 0..(idx - 1) :
            samples[i + 1].t # "dict" =>
                /\ ErrorsAt(result, i) =
                       <<ValidationError(i, "", NotObjectMsg(samples[i + 1].t))>>
                /\ WarningsAt(result, i) = <<>>
                /\ vpc = "return" => idx = Len(samples)
                /\ \A j \in (i + 1)..(idx - 1) :
                       /\ ErrorsAt(result, j) = Alone(j).errors
                       /\ WarningsAt(result, j) = Alone(j).warnings

\* A non-object record followed by an object record with findings of its own.
C9_Witness ==
    /\ vpc = "return"
    /\ Len(samples) >= 2
    /\ samples[1].t # "dict"
    /\ samples[2].t = "dict"
    /\ ErrorsAt(result, 0) # <<>>
    /\ ErrorsAt(result, 1) # <<>>
    /\ WarningsAt(result, 1) # <<>>

NonDecreasing(q) == \A a, b \in 1..Len(q) : a < b => q[a].index <= q[b].index

\* C10: in the report of a loaded file the findings are in discovery order:
\* records are validated in ascending index order, so the indices of the
\* errors and of the warnings never decrease and stay below the number of
\* records validated so far, and within one record every missing-field error
\* precedes every value error.
C10_DiscoveryOrder ==
    (vpc \in {"loop", "return"} /\ ~LoadFails(cur)) =>
        /\ NonDecreasing(result.errors)
        /\ NonDecreasing(result.warnings)
        /\ \A e \in Range(result.errors) : e.index \in 0..(idx - 1)
        /\ \A w \in Range(result.warnings) :
               w.index \in 0..(idx - 1) \/ (w.index = -1 /\ result.total_samples = 0)
        /\ idx <= result.total_samples
        /\ vpc = "return" => idx = result.total_samples
        /\ \A a, b \in 1..Len(result.errors) :
               (/\ a < b
                /\ result.errors[a].index = result.errors[b].index
                /\ result.errors[b].message = MissingMsg) =>
                   result.errors[a].message = MissingMsg

\* Two records with errors, the second one with a missing-field error
\* followed by a value error.
C10_Witness ==
    /\ vpc = "return"
    /\ ErrorsAt(result, 0) # <<>>
    /\ Len(ErrorsAt(result, 1)) = 2
    /\ ErrorsAt(result, 1)[1].message = MissingMsg
    /\ ErrorsAt(result, 1)[2].message = EmptyMsg

====
